---- MODULE Spec2Model ----
(***************************************************************************)
(* Telegram Folder Publisher (src/main.py): the pipeline of main() as a     *)
(* state machine, and escape_markdown_v2 as an operator on character        *)
(* sequences.  Text (captions, file names) is a sequence of one-character   *)
(* strings, so that concatenation, splitting, prefix and suffix tests are   *)
(* computed as the code computes them.                                      *)
(***************************************************************************)
EXTENDS Integers, Sequences, FiniteSets, TLC

\* Bounds of the model.
MaxLen == 4          \* longest text given to escape_markdown_v2 in SpecEsc
MaxParts == 3        \* most volumes the compressor produces in one run
MaxStep == 1         \* longest duration of one external call (clone, 7z, upload)
MaxClock == 5        \* latest reading of the clock in SpecGuard
MaxCalls == 3        \* most calls of is_time_exceeded in SpecGuard

\* Program constants.
PauseSeconds == 3            \* time.sleep(3)
DefaultMaxSeconds == 3300    \* config default of max_execution_seconds

VARIABLES
    text,            \* SpecEsc: the argument of escape_markdown_v2
    escaped,         \* SpecEsc: its result
    applied,         \* SpecEsc: whether the function has been applied
    pc,              \* position of main()
    now,             \* time.time()
    start_time,      \* main: start_time
    config,          \* the configuration after ConfigManager.load
    time_exceeded,   \* RuntimeManager.time_exceeded
    warnings,        \* number of warnings RuntimeManager.is_time_exceeded logged
    workspace,       \* the TemporaryDirectory: "none", "exists", "removed"
    files,           \* names of the regular files directly in the workspace
    dirs,            \* names of the directories directly in the workspace
    archive_output_path, \* name of the archive output path (in the workspace)
    archive_chunks,  \* main: archive_chunks, a sequence of file names
    builder_result,  \* what create_multivolume_archive returned
    produced,        \* names of the files the compressor wrote in this run
    full_caption,    \* main: full_caption
    i,               \* main: the loop index of the upload loop (0-based)
    sent,            \* the calls of send_document, in order
    log,             \* the steps main() has taken, in order
    stop,            \* why the run left its normal course ("none" while running)
    raised,          \* the exception in flight when main() ended ("none" if none)
    uncaught,        \* whether an exception left main() uncaught
    guard_calls,     \* the calls of RuntimeManager.is_time_exceeded, in order
    sevenz_exit      \* how the 7z process of the builder ended ("none": not called)

escVars == <<text, escaped, applied>>
runVars == <<pc, now, start_time, config, time_exceeded, warnings, workspace,
             files, dirs, archive_output_path, archive_chunks, builder_result,
             produced, full_caption, i, sent, log, stop, raised, uncaught,
             guard_calls, sevenz_exit>>
vars == <<text, escaped, applied, pc, now, start_time, config, time_exceeded,
          warnings, workspace, files, dirs, archive_output_path, archive_chunks,
          builder_result, produced, full_caption, i, sent, log, stop, raised,
          uncaught, guard_calls, sevenz_exit>>

----------------------------------------------------------------------------
\* Text helpers.

\* The character U+0060 (backtick); a TLA+ string cannot hold it, so the
\* token "BT" stands for that one character.
Backtick == "BT"
Backslash == "\\"

\* str.startswith
StartsWith(s, p) == Len(s) >= Len(p) /\ SubSeq(s, 1, Len(p)) = p

\* str.endswith
EndsWith(s, p) == Len(s) >= Len(p) /\ SubSeq(s, Len(s) - Len(p) + 1, Len(s)) = p

----------------------------------------------------------------------------
\* escape_markdown_v2 (src/main.py 170-190).

\* escape_chars = r'_*[]()~>#+-=|{}.!'
MutEscapeCharsNoDot == {"_", "*", "[", "]", "(", ")", "~", ">", "#", "+", "-", "=", "|",
                        "{", "}", "!"}
EscapeChars == {"_", "*", "[", "]", "(", ")", "~", ">", "#", "+", "-", "=", "|",
                "{", "}", ".", "!"}

RECURSIVE SplitFrom(_, _, _, _)
SplitFrom(s, k, cur, acc) ==
    IF k > Len(s) THEN Append(acc, cur)
    ELSE IF s[k] = Backtick THEN SplitFrom(s, k + 1, <<>>, Append(acc, cur))
    ELSE SplitFrom(s, k + 1, Append(cur, s[k]), acc)

\* text.split('`'): the runs between backticks; one more run than backticks.
Split(s) == SplitFrom(s, 1, <<>>, <<>>)

RECURSIVE ReSub(_)
\* re.sub('([<escape_chars>])', r'\\\1', part): a backslash before each match.
ReSub(part) ==
    IF part = <<>> THEN <<>>
    ELSE (IF Head(part) \in EscapeChars THEN <<Backslash, Head(part)>>
          ELSE <<Head(part)>>) \o ReSub(Tail(part))

RECURSIVE Join(_, _)
\* sep.join(parts)
Join(sep, parts) ==
    IF parts = <<>> THEN <<>>
    ELSE IF Len(parts) = 1 THEN Head(parts)
    ELSE Head(parts) \o sep \o Join(sep, Tail(parts))

\* The test `i % 2 == 0` on the 0-based index of a run.
MutIsPlainRunAlways(idx) == TRUE
IsPlainRun(idx) == idx % 2 = 0

escape_markdown_v2(t) ==
    LET parts == Split(t)
        escaped_parts == [k \in 1..Len(parts) |->
                            IF IsPlainRun(k - 1) THEN ReSub(parts[k]) ELSE parts[k]]
    IN Join(<<Backtick>>, escaped_parts)

----------------------------------------------------------------------------
\* File names in the workspace, and their order.

\* The code point of a character that occurs in a file name.
Ord(c) ==
    CASE c = "." -> 46 [] c = "0" -> 48 [] c = "1" -> 49 [] c = "2" -> 50
      [] c = "3" -> 51 [] c = "4" -> 52 [] c = "5" -> 53 [] c = "6" -> 54
      [] c = "7" -> 55 [] c = "8" -> 56 [] c = "9" -> 57 [] c = "?" -> 63
      [] c = "a" -> 97 [] c = "b" -> 98 [] c = "d" -> 100 [] c = "m" -> 109 [] c = "z" -> 122 [] OTHER -> 0

RECURSIVE LexLess(_, _)
\* a < b for two strings (the order sorted() puts file names of one directory in).
LexLess(a, b) ==
    IF b = <<>> THEN FALSE
    ELSE IF a = <<>> THEN TRUE
    ELSE IF Head(a) = Head(b) THEN LexLess(Tail(a), Tail(b))
    ELSE Ord(Head(a)) < Ord(Head(b))

RECURSIVE Sorted(_)
\* sorted(S) for a set of file names.
Sorted(S) ==
    IF S = {} THEN <<>>
    ELSE LET least == CHOOSE x \in S : \A y \in S \ {x} : LexLess(x, y)
         IN <<least>> \o Sorted(S \ {least})

RECURSIVE Digits(_)
\* str(n) for n >= 0, in decimal.
Digits(n) ==
    LET d == <<"0", "1", "2", "3", "4", "5", "6", "7", "8", "9">>
    IN IF n < 10 THEN <<d[n + 1]>> ELSE Digits(n \div 10) \o <<d[(n % 10) + 1]>>

\* Position of the last "." of a name, 0 if there is none.
LastDot(name) ==
    LET ds == {k \in 1..Len(name) : name[k] = "."}
    IN IF ds = {} THEN 0 ELSE CHOOSE k \in ds : \A j \in ds : j <= k

Suffix7z == <<".", "7", "z">>
FirstVolume == <<".", "0", "0", "1">>

\* (temp_dir / output_archive_basename).with_suffix('.7z'): the name with its
\* last extension, if it has one, replaced by '.7z'.
WithSuffix7z(basename) ==
    LET k == LastDot(basename)
    IN IF k > 1 THEN SubSeq(basename, 1, k - 1) \o Suffix7z ELSE basename \o Suffix7z

\* The name of the k-th volume 7z writes for the archive `out` (-v switch):
\* out.001, out.002, ...
VolumeName(out, k) ==
    out \o <<".">> \o (IF k < 10 THEN <<"0", "0">> ELSE IF k < 100 THEN <<"0">> ELSE <<>>)
        \o Digits(k)

RECURSIVE FnmatchFrom(_, _, _, _)
\* Whether name[n..] matches the glob pattern pat[p..]: "*" stands for any
\* run of characters, "?" for any one character, every other character of
\* these names for itself (no name here holds a bracket).
FnmatchFrom(name, pat, n, p) ==
    IF p > Len(pat) THEN n > Len(name)
    ELSE IF pat[p] = "*"
         THEN \/ FnmatchFrom(name, pat, n, p + 1)
              \/ (n <= Len(name) /\ FnmatchFrom(name, pat, n + 1, p))
         ELSE /\ n <= Len(name)
              /\ (pat[p] = "?" \/ pat[p] = name[n])
              /\ FnmatchFrom(name, pat, n + 1, p + 1)

\* archive_output_path.parent.glob(f"{archive_output_path.name}.*"): the
\* name of the archive is part of the pattern, unquoted.
GlobMatch(name, out) == FnmatchFrom(name, out \o <<".", "*">>, 1, 1)

----------------------------------------------------------------------------
\* Configuration (ConfigManager, src/main.py 95-145).

NoConfig == [loaded |-> FALSE]

FolderName == <<"d">>
ArchiveNames == {<<"a">>, <<"m", ".", "d">>}
Templates == {<<>>, <<"T", "_">>}
HandleEnvValue == <<"@", "e">>
Handles == {<<>>, <<"@", "c">>}
MaxSecondsChoices == {1, 4, DefaultMaxSeconds}

\* Whether config['telegram'][key] holds a value once the environment
\* overrides are in: the override can only be written into an existing
\* 'telegram' section.
AfterOverrides(section, inFile, inEnv) == section /\ (inFile \/ inEnv)

MutLoadOutcomeNoChannelCheck(file, section, tokFile, chFile, tokEnv, chEnv, handleEnv) ==
    IF file # "ok" THEN "SystemExit"
    ELSE IF ~section /\ (tokEnv \/ chEnv \/ handleEnv) THEN "KeyError"
    ELSE IF ~((section /\ tokFile) \/ tokEnv) THEN "SystemExit"
    ELSE "ok"

\* What load() ends with: "SystemExit" (sys.exit(1)), "KeyError" (an
\* environment override written into a missing 'telegram' section) or "ok".
LoadOutcome(file, section, tokFile, chFile, tokEnv, chEnv, handleEnv) ==
    IF file # "ok" THEN "SystemExit"
    ELSE IF ~section /\ (tokEnv \/ chEnv \/ handleEnv) THEN "KeyError"
    ELSE IF ~((section /\ tokFile) \/ tokEnv) THEN "SystemExit"
    ELSE IF ~((section /\ chFile) \/ chEnv) THEN "SystemExit"
    ELSE "ok"

----------------------------------------------------------------------------
\* RuntimeManager (src/main.py 147-164).

\* elapsed_time > self.max_seconds
MutExceedsNever(elapsed, max) == FALSE
MutExceedsAtCeiling(elapsed, max) == elapsed >= max
Exceeds(elapsed, max) == elapsed > max

\* The value is_time_exceeded returns.
MutIsTimeExceededNotSticky == Exceeds(now - start_time, config.max_seconds)
IsTimeExceeded == time_exceeded \/ Exceeds(now - start_time, config.max_seconds)

\* One call of is_time_exceeded: the flag it sets, the warning it logs the
\* call that sets the flag, and the record of the call (the elapsed time it
\* computed, the flag before the call, the value returned, whether it logged).
CallIsTimeExceeded ==
    /\ warnings' = IF ~time_exceeded /\ IsTimeExceeded THEN warnings + 1 ELSE warnings
    /\ time_exceeded' = IsTimeExceeded
    /\ guard_calls' = Append(guard_calls,
                             [elapsed |-> now - start_time,
                              before |-> time_exceeded,
                              result |-> IsTimeExceeded,
                              warned |-> ~time_exceeded /\ IsTimeExceeded])

----------------------------------------------------------------------------
\* create_multivolume_archive (src/main.py 192-241).

\* The list the builder returns: `outcome` is how the 7z process ended,
\* `fs` the files of the output directory after it ran.
create_multivolume_archive(isDir, outcome, fs, out) ==
    IF ~isDir THEN <<>>
    ELSE IF outcome # "ok" THEN <<>>
    ELSE LET archive_parts == Sorted({f \in fs : GlobMatch(f, out)})
         IN IF archive_parts = <<>>
            THEN (IF out \in fs THEN <<out>> ELSE <<>>)
            ELSE archive_parts

----------------------------------------------------------------------------
\* Captions (src/main.py 395-422).

JalaliStr == <<"1", "/", "2">>
UtcStr == <<"3", "-", "4">>
LatestUpdate == <<"\n", "L", "a", "t", "e", "s", "t", " ", "U", "p", "d", "a", "t",
                  "e", ":", " ">>

\* "\n".join(part for part in full_caption_parts if part)
FullCaption(base_text, jalali_str, utc_str, channel_handle) ==
    LET full_caption_parts ==
            << base_text,
               LatestUpdate \o <<Backtick>> \o jalali_str \o <<" ", "|", " ">> \o utc_str
                   \o <<" ", "U", "T", "C", Backtick>>,
               <<"\n">> \o channel_handle >>
    IN Join(<<"\n">>, SelectSeq(full_caption_parts, LAMBDA p : p # <<>>))

\* " (Part {part_num}/{total_parts})"
PartIndicator(part_num, total_parts) ==
    <<" ", "(", "P", "a", "r", "t", " ">> \o Digits(part_num) \o <<"/">>
        \o Digits(total_parts) \o <<")">>

\* current_caption of the loop body, for the 0-based index idx.
MutCurrentCaptionAlwaysFull(idx, total_parts, caption, basename) ==
    caption \o PartIndicator(idx + 1, total_parts)
CurrentCaption(idx, total_parts, caption, basename) ==
    IF idx = 0
    THEN (IF total_parts > 1 THEN caption \o PartIndicator(idx + 1, total_parts)
          ELSE caption)
    ELSE basename \o PartIndicator(idx + 1, total_parts)

----------------------------------------------------------------------------
\* SpecEsc: escape_markdown_v2 applied to every text over Alphabet of length
\* at most MaxLen.

Alphabet == {"a", "_", ".", Backtick, Backslash}

Texts == UNION {[1..n -> Alphabet] : n \in 0..MaxLen}

RunIdle ==
    /\ pc = "idle" /\ now = 0 /\ start_time = 0 /\ config = NoConfig
    /\ time_exceeded = FALSE /\ warnings = 0 /\ workspace = "none"
    /\ files = {} /\ dirs = {} /\ archive_output_path = <<>>
    /\ archive_chunks = <<>> /\ builder_result = <<>> /\ produced = {}
    /\ full_caption = <<>> /\ i = 0 /\ sent = <<>> /\ log = <<>>
    /\ stop = "none" /\ raised = "none" /\ uncaught = FALSE
    /\ guard_calls = <<>> /\ sevenz_exit = "none"

InitEsc ==
    /\ text \in Texts
    /\ escaped = <<>>
    /\ applied = FALSE
    /\ RunIdle

ApplyEscape ==
    /\ ~applied
    /\ escaped' = escape_markdown_v2(text)
    /\ applied' = TRUE
    /\ UNCHANGED <<text, runVars>>

NextEsc == ApplyEscape

SpecEsc == InitEsc /\ [][NextEsc]_vars

----------------------------------------------------------------------------
\* SpecGuard: one RuntimeManager, called any number of times (at most
\* MaxCalls) while the wall clock takes any value up to MaxClock between the
\* calls; time.time() is not monotonic.

InitGuard ==
    /\ text = <<>> /\ escaped = <<>> /\ applied = FALSE
    /\ pc = "guard"
    /\ start_time \in {0, 1}
    /\ now = start_time
    /\ \E max \in MaxSecondsChoices : config = [loaded |-> TRUE, max_seconds |-> max]
    /\ time_exceeded = FALSE /\ warnings = 0 /\ workspace = "none"
    /\ files = {} /\ dirs = {} /\ archive_output_path = <<>>
    /\ archive_chunks = <<>> /\ builder_result = <<>> /\ produced = {}
    /\ full_caption = <<>> /\ i = 0 /\ sent = <<>> /\ log = <<>>
    /\ stop = "none" /\ raised = "none" /\ uncaught = FALSE
    /\ guard_calls = <<>> /\ sevenz_exit = "none"

\* The wall clock reads another value.
ClockMoves ==
    /\ pc = "guard"
    /\ \E t \in 0..MaxClock : t # now /\ now' = t
    /\ UNCHANGED <<escVars, pc, start_time, config, time_exceeded, warnings,
                   workspace, files, dirs, archive_output_path, archive_chunks,
                   builder_result, produced, full_caption, i, sent, log, stop,
                   raised, uncaught, guard_calls, sevenz_exit>>

\* runtime_manager.is_time_exceeded()
GuardCall ==
    /\ pc = "guard"
    /\ Len(guard_calls) < MaxCalls
    /\ CallIsTimeExceeded
    /\ UNCHANGED <<escVars, pc, now, start_time, config, workspace, files, dirs,
                   archive_output_path, archive_chunks, builder_result, produced,
                   full_caption, i, sent, log, stop, raised, uncaught, sevenz_exit>>

NextGuard ==
    \/ ClockMoves
    \/ GuardCall

SpecGuard == InitGuard /\ [][NextGuard]_vars

----------------------------------------------------------------------------
\* SpecBuild: create_multivolume_archive called once, on any source (a
\* directory or not), any output name of BuildNames, any files already in the
\* output directory, and any way for the 7z process to end.

BuildNames == ArchiveNames \cup {<<"?">>}

\* Files that may lie in the output directory before 7z runs.
Bystanders(out) == {out, out \o <<".", "m", "d">>, <<"b", ".", "7", "z", ".", "m", "d">>}

InitBuild ==
    /\ text = <<>> /\ escaped = <<>> /\ applied = FALSE
    /\ pc = "builder"
    /\ start_time = 0 /\ now = 0
    /\ config = NoConfig
    /\ time_exceeded = FALSE /\ warnings = 0 /\ workspace = "open"
    /\ dirs \in {{}, {FolderName}}
    /\ \E n \in BuildNames : archive_output_path = WithSuffix7z(n)
    /\ files \in SUBSET Bystanders(archive_output_path)
    /\ archive_chunks = <<>> /\ builder_result = <<>> /\ produced = {}
    /\ full_caption = <<>> /\ i = 0 /\ sent = <<>> /\ log = <<>>
    /\ stop = "none" /\ raised = "none" /\ uncaught = FALSE
    /\ guard_calls = <<>> /\ sevenz_exit = "none"

\* create_multivolume_archive(log, directory_to_zip, archive_output_path, ...)
CallBuilder ==
    /\ pc = "builder"
    /\ \E sevenz \in {"notrun", "ok", "notfound", "nonzero", "other"},
          k \in 0..MaxParts, bare \in BOOLEAN :
         /\ sevenz = "notrun" <=> FolderName \notin dirs
         /\ sevenz # "ok" => (k = 0 /\ ~bare)
         /\ bare => k = 0
         /\ LET out == archive_output_path
                written == {VolumeName(out, v) : v \in 1..k}
                               \cup (IF bare THEN {out} ELSE {})
                after == files \cup written
            IN /\ produced' = written
               /\ sevenz_exit' = sevenz
               /\ files' = after
               /\ builder_result' = create_multivolume_archive(FolderName \in dirs,
                                                               sevenz, after, out)
    /\ pc' = "built"
    /\ UNCHANGED <<escVars, now, start_time, config, time_exceeded, warnings,
                   workspace, dirs, archive_output_path, archive_chunks,
                   full_caption, i, sent, log, stop, raised, uncaught, guard_calls>>

NextBuild == CallBuilder

SpecBuild == InitBuild /\ [][NextBuild]_vars

----------------------------------------------------------------------------
\* main() (src/main.py 325-436).

\* Exceptions that `except Exception` catches; SystemExit derives from
\* BaseException and passes it.
MutTopLevelCatchesOSErrorOnly(exc) == exc = "OSError"
TopLevelCatches(exc) == exc \in {"KeyError", "TypeError", "OSError"}

\* The TemporaryDirectory after its with-block is left, by falling off its
\* end, by return, or by the exception exc.
MutWorkspaceAfterExitLeaks(ws, exc) ==
    IF ws = "exists" /\ exc = "none" THEN "removed" ELSE ws
WorkspaceAfterExit(ws, exc) == IF ws = "exists" THEN "removed" ELSE ws

\* main() ends: the with-block (if entered) is left, the exception (if any)
\* meets the except clause, the finally clause logs the elapsed time.
Finish(reason, exc) ==
    /\ pc' = "done"
    /\ stop' = reason
    /\ raised' = exc
    /\ uncaught' = (exc # "none" /\ ~TopLevelCatches(exc))
    /\ workspace' = WorkspaceAfterExit(workspace, exc)
    /\ files' = {}
    /\ dirs' = {}

Init ==
    /\ text = <<>> /\ escaped = <<>> /\ applied = FALSE
    /\ pc = "start"
    /\ now \in {0, 1}
    /\ start_time = now
    /\ config = NoConfig
    /\ time_exceeded = FALSE /\ warnings = 0 /\ workspace = "none"
    /\ files = {} /\ dirs = {} /\ archive_output_path = <<>>
    /\ archive_chunks = <<>> /\ builder_result = <<>> /\ produced = {}
    /\ full_caption = <<>> /\ i = 0 /\ sent = <<>> /\ log = <<>>
    /\ stop = "none" /\ raised = "none" /\ uncaught = FALSE
    /\ guard_calls = <<>> /\ sevenz_exit = "none"

\* config_manager.load() and RuntimeManager(start_time, config, log)
LoadConfig ==
    /\ pc = "start"
    /\ log' = Append(log, "config")
    /\ \E file \in {"missing", "unparsable", "ok"},
          section, tokFile, chFile, tokEnv, chEnv, handleEnv \in BOOLEAN :
         LET res == LoadOutcome(file, section, tokFile, chFile, tokEnv, chEnv, handleEnv)
         IN IF res # "ok"
            THEN /\ Finish("config", res)
                 /\ config' = [loaded |-> FALSE, file |-> file,
                               bot_token |-> AfterOverrides(section, tokFile, tokEnv),
                               channel_id |-> AfterOverrides(section, chFile, chEnv)]
                 /\ UNCHANGED time_exceeded
            ELSE /\ \E url \in BOOLEAN, folder \in {"absent", "name", "badtype"},
                       name \in ArchiveNames, tpl \in Templates, handle \in Handles,
                       max \in MaxSecondsChoices :
                      config' = [loaded |-> TRUE, file |-> file,
                                 bot_token |-> AfterOverrides(section, tokFile, tokEnv),
                                 channel_id |-> AfterOverrides(section, chFile, chEnv),
                                 repo_url |-> url,
                                 folder_to_zip |-> folder, archive_name |-> name,
                                 telegram_caption |-> tpl,
                                 channel_handle |->
                                     IF handleEnv THEN HandleEnvValue
                                     ELSE IF section THEN handle ELSE <<>>,
                                 max_seconds |-> max]
                 /\ time_exceeded' = FALSE
                 /\ pc' = "mk_workspace"
                 /\ UNCHANGED <<workspace, files, dirs, stop, raised, uncaught>>
    /\ UNCHANGED <<escVars, guard_calls, sevenz_exit, now, start_time, warnings, archive_output_path,
                   archive_chunks, builder_result, produced, full_caption, i, sent>>

\* with tempfile.TemporaryDirectory(prefix="git_clone_") as temp_dir_str
AcquireWorkspace ==
    /\ pc = "mk_workspace"
    /\ workspace' = "exists"
    /\ files' = {} /\ dirs' = {}
    /\ log' = Append(log, "workspace")
    /\ pc' = "clone"
    /\ UNCHANGED <<escVars, guard_calls, sevenz_exit, now, start_time, config, time_exceeded, warnings,
                   archive_output_path, archive_chunks, builder_result, produced,
                   full_caption, i, sent, stop, raised, uncaught>>

\* A file of the fetched repository whose name begins with the archive's
\* output name and a dot.
RepoFileLikeVolume == WithSuffix7z(config.archive_name) \o <<".", "m", "d">>

\* fetcher.clone_repo(temp_dir)
CloneRepo ==
    /\ pc = "clone"
    /\ IF ~config.repo_url
       THEN /\ log' = Append(log, "clone_repo")
            /\ Finish("clone", "none")
            /\ UNCHANGED now
       ELSE \E git \in {"ok", "notfound", "nonzero", "other"}, d \in 0..MaxStep,
               hasDir, hasFile \in BOOLEAN :
              /\ log' = log \o <<"clone_repo", "git">>
              /\ now' = now + d
              /\ IF git = "ok"
                 THEN /\ dirs' = IF hasDir THEN {FolderName} ELSE {}
                      /\ files' = IF hasFile THEN {RepoFileLikeVolume} ELSE {}
                      /\ pc' = "resolve"
                      /\ UNCHANGED <<workspace, stop, raised, uncaught>>
                 ELSE Finish("clone", "none")
    /\ UNCHANGED <<escVars, guard_calls, sevenz_exit, start_time, config, time_exceeded, warnings,
                   archive_output_path, archive_chunks, builder_result, produced,
                   full_caption, i, sent>>

\* Step 2 of main(): the target folder and the archive path.
ResolveTarget ==
    /\ pc = "resolve"
    /\ log' = Append(log, "resolve")
    /\ CASE config.folder_to_zip = "absent" ->
              Finish("no_folder", "none") /\ UNCHANGED archive_output_path
         [] config.folder_to_zip = "badtype" ->
              Finish("exception", "TypeError") /\ UNCHANGED archive_output_path
         [] config.folder_to_zip = "name" /\ FolderName \notin dirs ->
              Finish("no_dir", "none") /\ UNCHANGED archive_output_path
         [] config.folder_to_zip = "name" /\ FolderName \in dirs ->
              /\ archive_output_path' = WithSuffix7z(config.archive_name)
              /\ pc' = "build"
              /\ UNCHANGED <<workspace, files, dirs, stop, raised, uncaught>>
    /\ UNCHANGED <<escVars, guard_calls, sevenz_exit, now, start_time, config, time_exceeded, warnings,
                   archive_chunks, builder_result, produced, full_caption, i, sent>>

\* `if not archive_chunks: return`
MutAbortsOnEmptyNever(chunks) == FALSE
AbortsOnEmpty(chunks) == chunks = <<>>

\* Step 3 of main(): create_multivolume_archive and the check of its result.
BuildArchive ==
    /\ pc = "build"
    /\ \E sevenz \in {"ok", "notfound", "nonzero", "other"}, k \in 0..MaxParts,
          bare \in BOOLEAN, d \in 0..MaxStep :
         /\ sevenz # "ok" => (k = 0 /\ ~bare)
         /\ bare => k = 0
         /\ LET out == archive_output_path
                written == {VolumeName(out, v) : v \in 1..k}
                               \cup (IF bare THEN {out} ELSE {})
                after == files \cup written
                result == create_multivolume_archive(FolderName \in dirs, sevenz,
                                                     after, out)
            IN /\ produced' = written
               /\ sevenz_exit' = sevenz
               /\ builder_result' = result
               /\ archive_chunks' = result
               /\ now' = now + d
               /\ log' = log \o <<"build", "7z">>
               /\ IF AbortsOnEmpty(result)
                  THEN Finish("archive", "none")
                  ELSE /\ files' = after
                       /\ pc' = "rename"
                       /\ UNCHANGED <<workspace, dirs, stop, raised, uncaught>>
    /\ UNCHANGED <<escVars, guard_calls, start_time, config, time_exceeded, warnings,
                   archive_output_path, full_caption, i, sent>>

\* len(archive_chunks) == 1 and archive_chunks[0].name.endswith('.001')
MutRenameAppliesToFirstOfMany(chunks) == EndsWith(chunks[1], FirstVolume)
RenameApplies(chunks) == Len(chunks) = 1 /\ EndsWith(chunks[1], FirstVolume)

\* archive_chunks after single_part.rename(target_path) succeeded (ok) or
\* raised OSError.
MutChunksAfterRenameAlwaysTarget(ok, single_part, target_path) == <<target_path>>
ChunksAfterRename(ok, single_part, target_path) ==
    IF ok THEN <<target_path>> ELSE <<single_part>>

\* Step 4 of main(): renaming of a single-part archive.
NormalizeName ==
    /\ pc = "rename"
    /\ IF RenameApplies(archive_chunks)
       THEN \E ok \in BOOLEAN :
              LET single_part == archive_chunks[1]
                  target_path == archive_output_path
              IN /\ files' = IF ok THEN (files \ {single_part}) \cup {target_path}
                             ELSE files
                 /\ archive_chunks' = ChunksAfterRename(ok, single_part, target_path)
                 /\ log' = log \o <<"normalize", IF ok THEN "rename" ELSE "rename_failed">>
       ELSE /\ log' = Append(log, "normalize")
            /\ UNCHANGED <<files, archive_chunks>>
    /\ pc' = "caption"
    /\ UNCHANGED <<escVars, guard_calls, sevenz_exit, now, start_time, config, time_exceeded, warnings,
                   workspace, dirs, archive_output_path, builder_result, produced,
                   full_caption, i, sent, stop, raised, uncaught>>

\* Step 5 of main(): the full caption.
SynthesizeCaption ==
    /\ pc = "caption"
    /\ full_caption' = FullCaption(config.telegram_caption, JalaliStr, UtcStr,
                                   config.channel_handle)
    /\ i' = 0
    /\ log' = Append(log, "caption")
    /\ pc' = "loop"
    /\ UNCHANGED <<escVars, guard_calls, sevenz_exit, now, start_time, config, time_exceeded, warnings,
                   workspace, files, dirs, archive_output_path, archive_chunks,
                   builder_result, produced, sent, stop, raised, uncaught>>

\* The head of the loop body: `if runtime_manager.is_time_exceeded(): break`
MutGuardCheckNotConsulted ==
    /\ pc = "loop"
    /\ i < Len(archive_chunks)
    /\ pc' = "send"
    /\ UNCHANGED <<escVars, guard_calls, sevenz_exit, now, start_time, config,
                   time_exceeded, warnings, workspace, files, dirs,
                   archive_output_path, archive_chunks, builder_result, produced,
                   full_caption, i, sent, log, stop, raised, uncaught>>
GuardCheck ==
    /\ pc = "loop"
    /\ i < Len(archive_chunks)
    /\ log' = Append(log, "guard")
    /\ CallIsTimeExceeded
    /\ IF IsTimeExceeded
       THEN Finish("timeout", "none")
       ELSE /\ pc' = "send"
            /\ UNCHANGED <<workspace, files, dirs, stop, raised, uncaught>>
    /\ UNCHANGED <<escVars, sevenz_exit, now, start_time, config, archive_output_path,
                   archive_chunks, builder_result, produced, full_caption, i, sent>>

\* What the loop does after send_document returned res for part part_num:
\* "break", "sleep" (and go on) or "end" (the list is exhausted).
MutAfterSendNoAbort(res, part_num, total_parts) ==
    IF part_num < total_parts THEN "sleep" ELSE "end"
MutAfterSendPauseAfterLast(res, part_num, total_parts) ==
    IF res # "ok" THEN "break" ELSE "sleep"
AfterSend(res, part_num, total_parts) ==
    IF res # "ok" THEN "break"
    ELSE IF part_num < total_parts THEN "sleep"
    ELSE "end"

\* The 'caption' field of the request send_document posts.
MutPayloadEscapedTwice(caption) == escape_markdown_v2(escape_markdown_v2(caption))
Payload(caption) == escape_markdown_v2(caption)

\* poster.send_document(chunk_path, current_caption) and what follows it in
\* the loop body.  res: "ok", "fail" (a RequestException: False is returned),
\* "missing" (the file does not exist: False is returned) or "exc" (another
\* exception, which send_document does not catch).
SendDocument ==
    /\ pc = "send"
    /\ LET chunk_path == archive_chunks[i + 1]
           total_parts == Len(archive_chunks)
           current_caption == CurrentCaption(i, total_parts, full_caption,
                                             config.archive_name)
       IN \E res \in {"ok", "fail", "missing", "exc"}, d \in 0..MaxStep :
            /\ (res = "missing") <=> (chunk_path \notin files)
            /\ res = "missing" => d = 0
            /\ sent' = Append(sent, [index |-> i, path |-> chunk_path,
                                     caption |-> current_caption,
                                     payload |-> IF res = "missing" THEN <<>>
                                                 ELSE Payload(current_caption),
                                     result |-> res])
            /\ log' = Append(log, "send")
            /\ now' = now + d
            /\ IF res = "exc"
               THEN Finish("exception", "OSError")
               ELSE CASE AfterSend(res, i + 1, total_parts) = "break" ->
                           Finish("send_failed", "none")
                      [] AfterSend(res, i + 1, total_parts) = "end" ->
                           Finish("complete", "none")
                      [] AfterSend(res, i + 1, total_parts) = "sleep" ->
                           /\ pc' = "sleep"
                           /\ UNCHANGED <<workspace, files, dirs, stop, raised, uncaught>>
    /\ UNCHANGED <<escVars, guard_calls, sevenz_exit, start_time, config, time_exceeded, warnings,
                   archive_output_path, archive_chunks, builder_result, produced,
                   full_caption, i>>

\* The index of the part enumerate() yields after part idx.
MutNextIndexSkips(idx) == idx + 2
NextIndex(idx) == idx + 1

\* time.sleep(3), then the next iteration
Pause ==
    /\ pc = "sleep"
    /\ now' = now + PauseSeconds
    /\ i' = NextIndex(i)
    /\ log' = Append(log, "sleep")
    /\ pc' = "loop"
    /\ UNCHANGED <<escVars, guard_calls, sevenz_exit, start_time, config, time_exceeded, warnings, workspace,
                   files, dirs, archive_output_path, archive_chunks, builder_result,
                   produced, full_caption, sent, stop, raised, uncaught>>

Next ==
    \/ LoadConfig
    \/ AcquireWorkspace
    \/ CloneRepo
    \/ ResolveTarget
    \/ BuildArchive
    \/ NormalizeName
    \/ SynthesizeCaption
    \/ GuardCheck
    \/ SendDocument
    \/ Pause

Spec == Init /\ [][Next]_vars

----------------------------------------------------------------------------
\* Derived notions used by the properties.

InLog(e) == \E p \in 1..Len(log) : log[p] = e

\* The number of parts the upload loop was given.
NumParts == Len(archive_chunks)

\* The upload loop has been entered in this run.
DeliveryStarted == InLog("caption")

\* The outcome of the part with 0-based index j: "Delivered" or "Failed" as
\* send_document returned for it, "SkippedTimeout" for the parts from the one
\* at which the time limit broke the loop, "Pending" while it has none.
Outcome(j) ==
    IF \E p \in 1..Len(sent) : sent[p].index = j /\ sent[p].result = "ok"
    THEN "Delivered"
    ELSE IF \E p \in 1..Len(sent) :
                sent[p].index = j /\ sent[p].result \in {"fail", "missing"}
    THEN "Failed"
    ELSE IF stop = "timeout" /\ j >= i THEN "SkippedTimeout"
    ELSE "Pending"

NumOutcomes == Cardinality({j \in 0..(NumParts - 1) : Outcome(j) # "Pending"})

\* The escape set and the part indicator as the specification words them.
SpecEscapeSet == {"_", "*", "[", "]", "(", ")", "~", ">", "#", "+", "-", "=", "|",
                  "{", "}", ".", "!"}

SpecDigit(n) ==
    CASE n = 1 -> "1" [] n = 2 -> "2" [] n = 3 -> "3" [] n = 4 -> "4" [] n = 5 -> "5"
      [] n = 6 -> "6" [] n = 7 -> "7" [] n = 8 -> "8" [] n = 9 -> "9"

SpecIndicator(n, total) ==
    <<" ", "(", "P", "a", "r", "t", " ", SpecDigit(n), "/", SpecDigit(total), ")">>

\* s occurs in t as a contiguous piece.
Contains(t, s) == \E k \in 0..(Len(t) - Len(s)) : SubSeq(t, k + 1, k + Len(s)) = s

CountOf(s, c) == Cardinality({k \in 1..Len(s) : s[k] = c})

RECURSIVE ScanFrom(_, _, _)
\* The escaping as one left-to-right pass: a backtick toggles between plain
\* and verbatim text; in plain text a backslash goes before each character
\* of the escape set.
ScanFrom(s, k, verbatim) ==
    IF k > Len(s) THEN <<>>
    ELSE IF s[k] = Backtick THEN <<Backtick>> \o ScanFrom(s, k + 1, ~verbatim)
    ELSE IF ~verbatim /\ s[k] \in SpecEscapeSet
         THEN <<Backslash, s[k]>> \o ScanFrom(s, k + 1, verbatim)
    ELSE <<s[k]>> \o ScanFrom(s, k + 1, verbatim)

LastRun(s) == LET runs == Split(s) IN runs[Len(runs)]

----------------------------------------------------------------------------
\* Properties of Spec (the pipeline).

\* C1: abort on failure, no retry.  If send_document returned False for part
\* k, then every part before k is Delivered, part k was attempted exactly
\* once and is Failed, that attempt is the last one of the run, no later part
\* has an attempt or an outcome, and the run has ended.
C1_AbortOnFailure ==
    \A p \in 1..Len(sent) :
        sent[p].result \in {"fail", "missing"} =>
            LET k == sent[p].index
            IN /\ p = Len(sent)
               /\ \A j \in 0..(k - 1) : Outcome(j) = "Delivered"
               /\ Cardinality({q \in 1..Len(sent) : sent[q].index = k}) = 1
               /\ Outcome(k) = "Failed"
               /\ \A j \in (k + 1)..(NumParts - 1) :
                     /\ Outcome(j) = "Pending"
                     /\ ~\E q \in 1..Len(sent) : sent[q].index = j
               /\ pc = "done" /\ stop = "send_failed"

\* A run of three parts whose second upload failed.
C1_Witness ==
    /\ pc = "done" /\ stop = "send_failed"
    /\ NumParts = 3 /\ Len(sent) = 2
    /\ sent[1].result = "ok" /\ sent[2].result = "fail"

\* C2 as stated: when the delivery engine finishes (no exception in flight),
\* there are as many outcomes as parts, and the SkippedTimeout parts are a
\* suffix.
C2_Original ==
    (pc = "done" /\ DeliveryStarted /\ raised = "none") =>
        /\ NumOutcomes = NumParts
        /\ \A j \in 0..(NumParts - 1) :
              Outcome(j) = "SkippedTimeout" =>
                  \A h \in j..(NumParts - 1) : Outcome(h) = "SkippedTimeout"

\* C2 amended: when the delivery engine finishes by exhausting the parts or by
\* the time limit, there are as many outcomes as parts; when it finishes on
\* the failed delivery of the part with index k, exactly the parts 0..k have
\* an outcome; when an exception ended it while sending part k, exactly the
\* parts before k; and the SkippedTimeout parts are always a suffix.
C2_PartCount ==
    (pc = "done" /\ DeliveryStarted) =>
        /\ stop \in {"complete", "timeout"} => NumOutcomes = NumParts
        /\ stop = "send_failed" =>
              /\ NumOutcomes = i + 1
              /\ \A j \in 0..(NumParts - 1) : (Outcome(j) # "Pending") <=> (j <= i)
        /\ stop = "exception" =>
              /\ NumOutcomes = i
              /\ \A j \in 0..(NumParts - 1) : (Outcome(j) # "Pending") <=> (j < i)
        /\ \A j \in 0..(NumParts - 1) :
              Outcome(j) = "SkippedTimeout" =>
                  \A h \in j..(NumParts - 1) : Outcome(h) = "SkippedTimeout"

\* A run of three parts stopped by the time limit after one delivery.
C2_Witness ==
    /\ pc = "done" /\ stop = "timeout"
    /\ NumParts = 3 /\ i = 1
    /\ Outcome(0) = "Delivered" /\ Outcome(2) = "SkippedTimeout"

C3_State ==
    /\ \A p \in 1..Len(log) : log[p] = "send" => (p > 1 /\ log[p - 1] = "guard")
    /\ pc = "send" => (~time_exceeded /\ now - start_time <= config.max_seconds)
    /\ time_exceeded =>
          /\ pc = "done" /\ stop = "timeout"
          /\ Len(sent) = i
          /\ \A p \in 1..Len(sent) : sent[p].index < i /\ sent[p].result = "ok"

C3_Step ==
    (pc = "loop" /\ now - start_time > config.max_seconds) =>
        (pc' = "done" /\ stop' = "timeout" /\ sent' = sent)

\* C3: time-budget stop.  Every upload is immediately preceded by a
\* consultation of the guard; no part is handed to the transport once the
\* guard has reported that the limit is exceeded; and a loop iteration that
\* starts with the limit exceeded (the first one included) ends the run with
\* no further upload.
C3_TimeBudgetStop == [](C3_State) /\ [][C3_Step]_vars

\* The limit is exceeded before the first part although fetch and archive
\* build succeeded: nothing is sent.
C3_Witness ==
    /\ pc = "done" /\ stop = "timeout" /\ i = 0
    /\ builder_result # <<>> /\ sent = <<>>
    /\ now - start_time > config.max_seconds

\* C4: ordered, single-pass delivery.  The p-th call of send_document is for
\* the p-th part of the list, every call but the last one succeeded, and the
\* delivered parts are a prefix of the list.
C4_OrderedSinglePass ==
    /\ \A p \in 1..Len(sent) :
          /\ sent[p].index = p - 1
          /\ p <= NumParts /\ sent[p].path = archive_chunks[p]
    /\ \A p \in 1..(Len(sent) - 1) : sent[p].result = "ok"
    /\ \E m \in 0..NumParts :
          {j \in 0..(NumParts - 1) : Outcome(j) = "Delivered"} = 0..(m - 1)

\* Three parts delivered, one after the other.
C4_Witness ==
    /\ Len(sent) = 3
    /\ \A p \in 1..3 : sent[p].result = "ok" /\ sent[p].index = p - 1

\* The stage a step of the log belongs to.
StageRank(e) ==
    CASE e = "config" -> 1
      [] e = "workspace" -> 2
      [] e \in {"clone_repo", "git"} -> 3
      [] e = "resolve" -> 4
      [] e \in {"build", "7z"} -> 5
      [] e \in {"normalize", "rename", "rename_failed"} -> 6
      [] e = "caption" -> 7
      [] e \in {"guard", "send", "sleep"} -> 8

MaxRank == IF log = <<>> THEN 0 ELSE StageRank(log[Len(log)])

\* C5: stage short-circuit.  The steps are taken in the order of the stages,
\* none skipped; a failed fetch is followed by no archive build; a failed
\* fetch, subfolder resolution or archive build (an empty part list
\* included) is followed by no later stage and no call of the transport.
C5_StageShortCircuit ==
    /\ \A p \in 1..Len(log) :
          IF p = 1 THEN StageRank(log[p]) = 1
          ELSE /\ StageRank(log[p - 1]) <= StageRank(log[p])
               /\ StageRank(log[p]) <= StageRank(log[p - 1]) + 1
    /\ stop = "clone" => (~InLog("build") /\ ~InLog("7z") /\ MaxRank = 3)
    /\ stop \in {"no_folder", "no_dir"} => MaxRank = 4
    /\ stop = "archive" => MaxRank = 5
    /\ stop \in {"clone", "no_folder", "no_dir", "archive"} =>
          (pc = "done" /\ sent = <<>>)
    /\ (InLog("build") /\ builder_result = <<>>) =>
          (pc = "done" /\ stop = "archive" /\ sent = <<>>)

\* The compressor ran successfully and left no part: the run ended there.
C5_Witness ==
    /\ pc = "done" /\ stop = "archive"
    /\ InLog("7z") /\ builder_result = <<>> /\ sent = <<>>

\* C6: guaranteed cleanup.  Whenever a run that acquired the workspace has
\* ended, by whichever path, the workspace has been removed and no exception
\* has left main() uncaught.
C6_GuaranteedCleanup ==
    (pc = "done" /\ InLog("workspace")) =>
        (workspace = "removed" /\ files = {} /\ dirs = {} /\ ~uncaught)

\* A run ended by an exception raised during an upload.
C6_Witness ==
    /\ pc = "done" /\ InLog("workspace")
    /\ raised = "OSError" /\ stop = "exception" /\ Len(sent) = 2
    /\ workspace = "removed"

\* C7: caption selection.  The caption of part 0 is the full caption when
\* there is one part and the full caption followed by " (Part 1/T)" when
\* there are T > 1; the caption of a later part i is the output base name
\* followed by " (Part i+1/T)", without the timestamp line; T is the number
\* of parts in every caption.
C7_CaptionSelection ==
    \A p \in 1..Len(sent) :
        LET r == sent[p]
            T == NumParts
        IN /\ (r.index = 0 /\ T = 1) => r.caption = full_caption
           /\ (r.index = 0 /\ T > 1) => r.caption = full_caption \o SpecIndicator(1, T)
           /\ r.index > 0 =>
                 /\ r.caption = config.archive_name \o SpecIndicator(r.index + 1, T)
                 /\ ~Contains(r.caption, LatestUpdate)
                 /\ ~Contains(r.caption, UtcStr)

\* Three parts sent, with a template and a channel handle in the full caption.
C7_Witness ==
    /\ Len(sent) = 3 /\ NumParts = 3
    /\ config.telegram_caption # <<>> /\ config.channel_handle # <<>>
    /\ sent[1].caption # full_caption
    /\ sent[3].caption # sent[2].caption

\* C8: single-part naming normalization.  When the builder returned exactly
\* one part whose name ends with '.001', then after the normalization step
\* either the part has been renamed to the bare output path and the part list
\* is that path, or the rename failed, the part list is still the suffixed
\* path, the run goes on to the caption and the uploads, and what is uploaded
\* is the suffixed path.
C8_SinglePartNaming ==
    (InLog("normalize") /\ Len(builder_result) = 1
        /\ EndsWith(builder_result[1], FirstVolume)) =>
        /\ builder_result[1] = archive_output_path \o FirstVolume
        /\ ~EndsWith(archive_output_path, FirstVolume)
        /\ \/ /\ InLog("rename")
              /\ archive_chunks = <<archive_output_path>>
              /\ pc # "done" =>
                    (archive_output_path \in files /\ builder_result[1] \notin files)
              /\ \A p \in 1..Len(sent) : sent[p].path = archive_output_path
           \/ /\ InLog("rename_failed")
              /\ archive_chunks = builder_result
              /\ pc # "done" => builder_result[1] \in files
              /\ \A p \in 1..Len(log) :
                    (log[p] = "rename_failed" /\ p < Len(log)) => log[p + 1] = "caption"
              /\ stop \in {"none", "timeout", "send_failed", "complete", "exception"}
              /\ stop = "exception" => Len(sent) = 1
              /\ \A p \in 1..Len(sent) : sent[p].path = builder_result[1]

\* The rename failed and the suffixed part was delivered.
C8_Witness ==
    /\ InLog("rename_failed")
    /\ Len(sent) = 1 /\ sent[1].result = "ok"
    /\ sent[1].path = builder_result[1]
    /\ EndsWith(sent[1].path, FirstVolume)

----------------------------------------------------------------------------
\* Properties of SpecEsc (escape_markdown_v2).

\* C9: escaping of plain and verbatim runs.  The result is the text with one
\* backslash put before each escape-set character of the runs at even split
\* index and nothing else changed: the runs at odd split index are the same,
\* and there are as many runs, hence as many backticks, as before.
C9_EscapeRuns ==
    applied =>
        /\ escaped = ScanFrom(text, 1, FALSE)
        /\ CountOf(escaped, Backtick) = CountOf(text, Backtick)
        /\ Len(Split(escaped)) = Len(Split(text))
        /\ \A k \in 1..Len(Split(text)) :
              LET run == Split(text)[k]
                  out == Split(escaped)[k]
              IN IF (k - 1) % 2 = 1 THEN out = run
                 ELSE /\ Len(out) = Len(run)
                             + Cardinality({h \in 1..Len(run) : run[h] \in SpecEscapeSet})
                      /\ \A h \in 1..Len(out) :
                            out[h] \in SpecEscapeSet => (h > 1 /\ out[h - 1] = Backslash)

\* A text with an escape-set character in a plain run and one in a verbatim
\* run.
C9_Witness ==
    /\ applied
    /\ Len(Split(text)) = 3
    /\ \E h \in 1..Len(Split(text)[1]) : Split(text)[1][h] \in SpecEscapeSet
    /\ \E h \in 1..Len(Split(text)[2]) : Split(text)[2][h] \in SpecEscapeSet
    /\ escaped # text

\* C10 as stated: with an odd number of backticks, the final run is escaped
\* as a plain run.
C10_Original ==
    (applied /\ CountOf(text, Backtick) % 2 = 1) =>
        LastRun(escaped) = ScanFrom(LastRun(text), 1, FALSE)

\* C10 amended: with an odd number of backticks, the final run is at an odd
\* split index and is passed through unchanged, as a verbatim run.
C10_OddBackticksFinalRunVerbatim ==
    (applied /\ CountOf(text, Backtick) % 2 = 1) =>
        LastRun(escaped) = LastRun(text)

\* An odd number of backticks and an escape-set character in the final run.
C10_Witness ==
    /\ applied
    /\ CountOf(text, Backtick) % 2 = 1
    /\ \E h \in 1..Len(LastRun(text)) : LastRun(text)[h] \in SpecEscapeSet
    /\ escaped # text

----------------------------------------------------------------------------
\* Further properties of Spec (the pipeline).

\* The timestamp line and the caption as the specification words them: the
\* non-empty ones of template, timestamp line and channel handle, with one
\* newline between neighbours.
SpecTimestampLine ==
    <<"L", "a", "t", "e", "s", "t", " ", "U", "p", "d", "a", "t", "e", ":", " ">>
        \o <<Backtick>> \o JalaliStr \o <<" ", "|", " ">> \o UtcStr
        \o <<" ", "U", "T", "C", Backtick>>

SpecCaption(template, handle) ==
    (IF template = <<>> THEN <<>> ELSE template \o <<"\n">>)
        \o SpecTimestampLine
        \o (IF handle = <<>> THEN <<>> ELSE <<"\n">> \o handle)

\* C11: caption assembly.  The full caption is the template (if not empty),
\* the 'Latest Update' line and the channel handle (if not empty), with
\* exactly one newline between neighbours: with an empty handle it ends with
\* the timestamp line and no newline, with an empty template it begins with
\* 'Latest Update'.
C11_CaptionAssembly ==
    InLog("caption") =>
        /\ full_caption = SpecCaption(config.telegram_caption, config.channel_handle)
        /\ config.channel_handle = <<>> =>
              (EndsWith(full_caption, SpecTimestampLine)
                  /\ full_caption[Len(full_caption)] # "\n")
        /\ config.telegram_caption = <<>> => StartsWith(full_caption, SpecTimestampLine)
        /\ ~Contains(full_caption, <<"\n", "\n">>)

----------------------------------------------------------------------------
\* Properties of SpecGuard (RuntimeManager.is_time_exceeded).

\* C12: sticky time-budget guard.  Once a call has returned true, every later
\* call returns true whatever the clock reads, and the warning is logged by
\* the first call that returns true and by no other.
C12_StickyGuard ==
    /\ \A p, q \in 1..Len(guard_calls) :
          (p < q /\ guard_calls[p].result) => guard_calls[q].result
    /\ \A q \in 1..Len(guard_calls) :
          guard_calls[q].warned <=>
              (guard_calls[q].result /\ \A p \in 1..(q - 1) : ~guard_calls[p].result)
    /\ warnings = Cardinality({q \in 1..Len(guard_calls) : guard_calls[q].warned})
    /\ warnings <= 1
    /\ time_exceeded <=> \E q \in 1..Len(guard_calls) : guard_calls[q].result

\* A call that returned true, and a later call made with the elapsed time
\* back under the ceiling.
C12_Witness ==
    \E p, q \in 1..Len(guard_calls) :
        /\ p < q
        /\ guard_calls[p].result /\ guard_calls[p].warned
        /\ guard_calls[q].elapsed <= config.max_seconds
        /\ guard_calls[q].result /\ ~guard_calls[q].warned
        /\ warnings = 1

----------------------------------------------------------------------------
\* Further properties of Spec (the pipeline), continued.

\* The number of steps e among the first n of the log.
CountInLog(e, n) == Cardinality({p \in 1..n : log[p] = e})

C13_State ==
    /\ \A p \in 1..Len(log) :
          log[p] = "sleep" =>
              /\ p > 1 /\ log[p - 1] = "send"
              /\ LET r == sent[CountInLog("send", p)]
                 IN r.result = "ok" /\ r.index + 1 < NumParts
              /\ p < Len(log) => log[p + 1] = "guard"
    /\ \A q \in 1..Len(sent) :
          (sent[q].result = "ok" /\ sent[q].index + 1 < NumParts) =>
              IF q = Len(sent) /\ pc = "sleep"
              THEN log[Len(log)] = "send"
              ELSE \E p \in 1..Len(log) :
                      log[p] = "sleep" /\ CountInLog("send", p) = q
    /\ pc = "sleep" => (sent # <<>> /\ sent[Len(sent)].result = "ok"
                            /\ sent[Len(sent)].index + 1 < NumParts)
    /\ stop \in {"send_failed", "exception", "complete"} =>
          (DeliveryStarted => log[Len(log)] = "send")
    /\ stop = "timeout" => log[Len(log)] = "guard"
    /\ stop = "complete" =>
          (Len(sent) = NumParts /\ CountInLog("sleep", Len(log)) = NumParts - 1)

C13_Step == pc = "sleep" => (now' = now + 3 /\ pc' = "loop" /\ sent' = sent)

\* C13: inter-part pacing.  A pause follows a successful delivery exactly
\* when that part is not the last one, it lasts 3 seconds and the next thing
\* after it is the guard check of the next part; no pause follows the last
\* part, a failed delivery or a timeout stop; a run that delivers all N parts
\* makes N-1 pauses.
C13_InterPartPacing == [](C13_State) /\ [][C13_Step]_vars

\* Three parts delivered with two pauses.
C13_Witness ==
    /\ pc = "done" /\ stop = "complete"
    /\ NumParts = 3 /\ Len(sent) = 3
    /\ CountInLog("sleep", Len(log)) = 2
    /\ log[Len(log)] = "send"

\* C14: configuration errors are fatal before any external side effect.  If
\* the configuration file is missing or unparsable, or the bot token or the
\* channel identifier is missing once the environment overrides are in, the
\* run ends in load(): no workspace, no clone, no 7z, no upload.
C14_ConfigErrorsFatal ==
    (InLog("config")
        /\ (config.file # "ok" \/ ~config.bot_token \/ ~config.channel_id)) =>
        /\ pc = "done" /\ stop = "config"
        /\ raised \in {"SystemExit", "KeyError"}
        /\ workspace = "none" /\ files = {} /\ dirs = {}
        /\ log = <<"config">>
        /\ sevenz_exit = "none" /\ produced = {}
        /\ sent = <<>> /\ guard_calls = <<>>

\* A parsable file with a bot token and no channel identifier.
C14_Witness ==
    /\ pc = "done" /\ stop = "config"
    /\ config.file = "ok" /\ config.bot_token /\ ~config.channel_id
    /\ workspace = "none" /\ sent = <<>>

\* C15 as stated: the guard is consulted before the clone, before the archive
\* build and before each upload, with no other long-running step in between.
C15_Original ==
    \A p \in 1..Len(log) :
        log[p] \in {"git", "7z", "send"} =>
            \E g \in 1..(p - 1) :
                /\ log[g] = "guard"
                /\ \A h \in (g + 1)..(p - 1) : log[h] \notin {"git", "7z", "send", "sleep"}

\* C15 amended: the guard is consulted before each part upload, at the head
\* of every iteration of the upload loop, and only there: not before the
\* clone and not before the archive build.
C15_GuardOnlyBeforeUploads ==
    /\ \A p \in 1..Len(log) :
          /\ log[p] = "send" => (p > 1 /\ log[p - 1] = "guard")
          /\ log[p] = "guard" =>
                /\ p > 1 /\ log[p - 1] \in {"caption", "sleep"}
                /\ p < Len(log) => log[p + 1] = "send"
          /\ log[p] \in {"git", "7z"} => CountInLog("guard", p) = 0
    /\ Len(guard_calls) = CountInLog("guard", Len(log))
    /\ ~DeliveryStarted => guard_calls = <<>>

\* Clone, archive build and three uploads, with three consultations.
C15_Witness ==
    /\ InLog("git") /\ InLog("7z")
    /\ Len(sent) = 3 /\ Len(guard_calls) = 3

\* C16: the builder returns the empty list, without raising, when the source
\* is not a directory or 7z is not found, exits non-zero or fails otherwise;
\* else the sorted list of all files named <output name>.<suffix> in the
\* output directory; and only when there is none, the bare output path if it
\* exists, else the empty list.
C16_BuilderResult ==
    pc = "built" =>
        LET out == archive_output_path
            suffixed == {f \in files : StartsWith(f, out \o <<".">>)}
            r == builder_result
        IN /\ raised = "none"
           /\ IF FolderName \notin dirs \/ sevenz_exit \in {"notfound", "nonzero", "other"}
              THEN r = <<>>
              ELSE IF suffixed # {}
              THEN /\ Len(r) = Cardinality(suffixed)
                   /\ {r[j] : j \in 1..Len(r)} = suffixed
                   /\ \A j \in 1..(Len(r) - 1) : LexLess(r[j], r[j + 1])
              ELSE r = (IF out \in files THEN <<out>> ELSE <<>>)

\* The request made last carries the caption of its part escaped once.
C17_State ==
    (sent # <<>> /\ sent[Len(sent)].result # "missing") =>
        LET r == sent[Len(sent)]
            raw == IF r.index = 0
                   THEN full_caption
                            \o (IF NumParts > 1 THEN SpecIndicator(1, NumParts) ELSE <<>>)
                   ELSE config.archive_name \o SpecIndicator(r.index + 1, NumParts)
            once == ScanFrom(raw, 1, FALSE)
        IN /\ r.caption = raw
           /\ r.payload = once
           /\ once # raw => r.payload # raw
           /\ ~Contains(r.payload, <<Backslash, Backslash>>)

\* The requests made stay as they were made, and so does what their captions
\* are made of.
C17_Step ==
    /\ Len(sent') >= Len(sent)
    /\ \A p \in 1..Len(sent) : sent'[p] = sent[p]
    /\ sent # <<>> =>
          (full_caption' = full_caption /\ archive_chunks' = archive_chunks
              /\ config' = config)

\* C17: every caption that reaches the request, for the first part and for
\* the later parts alike, is the unescaped caption of that part passed
\* through the escaping exactly once: never unescaped, never escaped twice.
C17_EscapedExactlyOnce == [](C17_State) /\ [][C17_Step]_vars

\* A first part whose caption holds a character to escape, and a later part.
C17_Witness ==
    \E p, q \in 1..Len(sent) :
        /\ sent[p].index = 0 /\ sent[p].result = "ok"
        /\ sent[p].payload # sent[p].caption
        /\ Contains(sent[p].caption, <<"T", "_">>)
        /\ sent[q].index = 1 /\ sent[q].result # "missing"
        /\ sent[q].payload # sent[q].caption

C18_State ==
    /\ (InLog("normalize")
            /\ ~(Len(builder_result) = 1 /\ EndsWith(builder_result[1], FirstVolume))) =>
          /\ archive_chunks = builder_result
          /\ ~InLog("rename") /\ ~InLog("rename_failed")
          /\ \A p \in 1..Len(sent) : sent[p].path = builder_result[sent[p].index + 1]
    /\ \A p \in 1..Len(sent) :
          /\ sent[p].index + 1 <= Len(archive_chunks)
          /\ sent[p].path = archive_chunks[sent[p].index + 1]

C18_Step ==
    DeliveryStarted =>
        /\ archive_chunks' = archive_chunks
        /\ files' = files \/ pc' = "done"

\* C18: parts are immutable except for the single-part rename.  When the
\* builder returned two or more parts, or one part whose name does not end in
\* '.001', nothing is renamed and the list handed to the upload loop is the
\* list the builder returned, in content and order; the upload loop sends the
\* paths of that list by position and never renames, reorders or removes one
\* (the files go only when the workspace is removed at the end of the run).
C18_PartsImmutable == [](C18_State) /\ [][C18_Step]_vars

\* Several volumes, the first ending in '.001', all delivered unrenamed.
C18_Witness ==
    /\ Len(builder_result) >= 2
    /\ EndsWith(builder_result[1], FirstVolume)
    /\ stop = "complete"
    /\ Len(sent) = Len(builder_result)

\* A path that names a volume 7z wrote in this run, under its own name or,
\* after the single-part rename, under the name of the archive.
IsCompressorVolume(path) ==
    \/ path \in produced
    \/ InLog("rename") /\ path = archive_output_path

\* C19: every file handed to the transport is an archive volume the
\* compressor produced during the run; no file that came with the cloned
\* repository is in the list of parts or uploaded.
C19_OnlyCompressorVolumes ==
    /\ InLog("7z") => \A j \in 1..Len(archive_chunks) : IsCompressorVolume(archive_chunks[j])
    /\ \A p \in 1..Len(sent) :
          sent[p].result # "missing" => IsCompressorVolume(sent[p].path)

\* C20: guard threshold boundary.  On a guard that has not tripped yet,
\* is_time_exceeded returns true exactly when the elapsed time (current time
\* minus run start) is strictly greater than the ceiling; with an elapsed time
\* equal to the ceiling it returns false and the next part is uploaded.
C20_ThresholdBoundary ==
    \A q \in 1..Len(guard_calls) :
        ~guard_calls[q].before =>
            /\ guard_calls[q].result <=> (guard_calls[q].elapsed > config.max_seconds)
            /\ guard_calls[q].elapsed = config.max_seconds =>
                  /\ ~guard_calls[q].result
                  /\ \/ Len(sent) >= q /\ sent[q].index = q - 1
                     \/ q = Len(guard_calls) /\ pc = "send" /\ i = q - 1

\* A consultation made at exactly the ceiling, and the upload that followed.
C20_Witness ==
    \E q \in 1..Len(guard_calls) :
        /\ ~guard_calls[q].before
        /\ guard_calls[q].elapsed = config.max_seconds
        /\ ~guard_calls[q].result
        /\ Len(sent) >= q /\ sent[q].result = "ok"

====
